---- MODULE Spec2Model ----
(***************************************************************************)
(* Model of the drift-detection handshake: the drift-detect lambda         *)
(* (initiator), the callback lambda (completion handler) and the DynamoDB  *)
(* table through which they coordinate.                                    *)
(*                                                                         *)
(* Strings that the code builds or parses (account, region, stack name,   *)
(* stack ARN, table partition key) are sequences of one-character strings, *)
(* so that concatenation and split are computed as the code computes them. *)
(* Opaque strings (job ids, drift detection ids, statuses, error names)    *)
(* are TLA+ strings.                                                       *)
(*                                                                         *)
(* Each handler touches the shared table exactly once (putItem in the      *)
(* initiator, getItem in the callback).  The initiator is therefore split  *)
(* at the one await that matters for interleavings: between the return of  *)
(* detectStackDrift and the putItem.                                       *)
(***************************************************************************)
EXTENDS Integers, Sequences, FiniteSets, TLC

VARIABLES
    store,       \* the DriftDetectDb table: a set of items [pk, sk, pipeline_job_id]
    pending,     \* initiator invocations suspended between detectStackDrift and putItem
    last,        \* the invocation that has just run, with its locals and its calls; NoInvocation between runs
    lastWriter,  \* history: for each pk, the job id of the most recent successful putItem
    dropped,     \* history: the key of a scan whose result event was discarded while its
                 \* invocation was suspended before putItem; NoKey when there is none
    received,    \* history: for each job id, the callbacks it has received (capped)
    delivered    \* history: the keys whose result event has been handled

vars == <<store, pending, last, lastWriter, dropped, received, delivered>>

-----------------------------------------------------------------------------
(* Bounds *)

MaxPending == 1      \* initiator invocations suspended before putItem at one time

-----------------------------------------------------------------------------
(* Input domains *)

Accounts == {<<"1">>}
Regions == {<<"r">>}
StackNames == {<<"a", "-", "x">>, <<"b">>}
JobIds == {"job-1", "job-2"}
DriftDetectionIds == {"d1", "d2"}

Params == [account : Accounts, region : Regions, stackName : StackNames]

\* drift-detect-lambda/index.ts:74-79
allowed_dd_status_list ==
    {"CREATE_COMPLETE", "UPDATE_COMPLETE", "UPDATE_ROLLBACK_COMPLETE", "UPDATE_ROLLBACK_FAILED"}

\* StackStatus values a DescribeStacks response is given in the model; "" is an absent status
StackStatuses == allowed_dd_status_list \cup {"UPDATE_IN_PROGRESS", ""}

\* Errors.  cls "Error" is a JavaScript Error raised by the handler itself,
\* cls "ServiceException" is an error thrown by an SDK client.
NoErr == [cls |-> "none", name |-> "", Code |-> "", message |-> ""]
ValidationErr == [cls |-> "ServiceException", name |-> "ValidationError", Code |-> "", message |-> "denied"]
ThrottlingErr == [cls |-> "ServiceException", name |-> "Throttling", Code |-> "", message |-> "rate"]
InvalidJobStateErr ==
    [cls |-> "ServiceException", name |-> "InvalidJobStateException", Code |-> "", message |-> "state"]
StoreErr ==
    [cls |-> "ServiceException", name |-> "ResourceNotFoundException", Code |-> "", message |-> "table"]

CfnErrors == {ValidationErr, ThrottlingErr}
SendOutcomes == {NoErr, InvalidJobStateErr}
StoreOutcomes == {NoErr, StoreErr}

\* new Error(message)
NewError(message) == [cls |-> "Error", name |-> "Error", Code |-> "", message |-> message]

-----------------------------------------------------------------------------
(* String helpers *)

\* String.prototype.split(ch): the pieces of s between occurrences of ch (always >= 1 piece)
RECURSIVE Split(_, _)
Split(s, ch) ==
    IF \A i \in 1..Len(s) : s[i] # ch
    THEN <<s>>
    ELSE LET i == CHOOSE k \in 1..Len(s) : s[k] = ch /\ \A j \in 1..(k - 1) : s[j] # ch
         IN <<SubSeq(s, 1, i - 1)>> \o Split(SubSeq(s, i + 1, Len(s)), ch)

\* the text a template literal gives for the value undefined
Undefined == <<"undefined">>

\* `${account}#${region}#${stackName}`
TargetKey(account, region, stackName) == account \o <<"#">> \o region \o <<"#">> \o stackName

\* variant: the name is taken from the first path segment
extractStackNameFromArn_FirstSegment(stackArn) ==
    LET stackItems == Split(stackArn, ":")
        stackId == stackItems[Len(stackItems)]
        stackIdItems == Split(stackId, "/")
    IN stackIdItems[1]

\* callback-lambda/index.ts:130-138
extractStackNameFromArn(stackArn) ==
    LET stackItems == Split(stackArn, ":")
        stackId == stackItems[Len(stackItems)]
        stackIdItems == Split(stackId, "/")
    IN IF Len(stackIdItems) >= 2 THEN stackIdItems[2] ELSE Undefined

\* the ARN CloudFormation gives the stack `name` of `account` in `region`
StackArn(account, region, name) ==
    <<"arn", ":">> \o region \o <<":">> \o account \o <<":", "stack", "/">> \o name \o <<"/", "9">>

\* JSON.stringify(err): an Error has no enumerable own property; an SDK
\* exception carries its name as one.
JSONstringify(err) ==
    IF err.cls = "Error" THEN <<"{", "}">> ELSE <<"{", "name", ":", err.name, "}">>

-----------------------------------------------------------------------------
(* Calls on the external collaborators, as recorded per invocation *)

Call(op, name, sk, jobId, message, err) ==
    [op |-> op, name |-> name, sk |-> sk, jobId |-> jobId, message |-> message, err |-> err]

\* sendSuccess: putJobSuccessResult, whose rejection propagates to the caller
sendSuccess(inv, jobId, out) ==
    [inv EXCEPT !.calls = Append(@, Call("putJobSuccessResult", <<>>, "", jobId, <<>>, out)),
                !.thrown = out]

\* sendFailure: putJobFailureResult, whose rejection propagates to the caller
sendFailure(inv, jobId, message, out) ==
    [inv EXCEPT !.calls = Append(@, Call("putJobFailureResult", <<>>, "", jobId, message, out)),
                !.thrown = out]

IsCallback(c) == c.op \in {"putJobSuccessResult", "putJobFailureResult"}

\* the calls of kind op made by an invocation, in order
RECURSIVE CallsOf(_, _)
CallsOf(calls, ops) ==
    IF calls = <<>> THEN <<>>
    ELSE (IF Head(calls).op \in ops THEN <<Head(calls)>> ELSE <<>>) \o CallsOf(Tail(calls), ops)

Callbacks(inv) == CallsOf(inv.calls, {"putJobSuccessResult", "putJobFailureResult"})

\* how an invocation ends once its last statement ran
Finish(inv) == [inv EXCEPT !.pc = IF inv.thrown = NoErr THEN "returned" ELSE "threw"]

-----------------------------------------------------------------------------
(* The DriftDetectDb table: primary key (pk, sk) *)

SameKey(i, j) == i.pk = j.pk /\ i.sk = j.sk

\* variant: the write adds the item without replacing the one under its key
putItem_Append(table, item) == table \cup {item}

putItem(table, item) == {i \in table : ~SameKey(i, item)} \cup {item}

\* variant: the lookup is by sort key alone
getItem_BySk(table, pk, sk) ==
    IF \E i \in table : i.sk = sk
    THEN CHOOSE i \in table : i.sk = sk
    ELSE [pk |-> <<>>, sk |-> "", pipeline_job_id |-> ""]

\* variant: the lookup is by partition key alone
getItem_ByPk(table, pk, sk) ==
    IF \E i \in table : i.pk = pk
    THEN CHOOSE i \in table : i.pk = pk
    ELSE [pk |-> <<>>, sk |-> "", pipeline_job_id |-> ""]

\* getItem: the item under the full primary key, or NoItem
NoItem == [pk |-> <<>>, sk |-> "", pipeline_job_id |-> ""]
getItem(table, pk, sk) ==
    IF \E i \in table : i.pk = pk /\ i.sk = sk
    THEN CHOOSE i \in table : i.pk = pk /\ i.sk = sk
    ELSE NoItem

-----------------------------------------------------------------------------
(* Scan Initiator: drift-detect-lambda handler *)

\* the answers describeStacks can give for params.stackName: an error, no
\* stack, the stack asked for in any status, or a stack of another name
NoStacks == <<>>
DescribeOutputs(params) ==
    [err : CfnErrors, Stacks : {NoStacks}]
    \cup [err : {NoErr}, Stacks : {NoStacks}]
    \cup [err : {NoErr},
          Stacks : {<<[StackName |-> params.stackName, StackStatus |-> s]>> : s \in StackStatuses}]
    \cup [err : {NoErr},
          Stacks : {<<[StackName |-> n, StackStatus |-> "CREATE_COMPLETE"]>> :
                        n \in StackNames \ {params.stackName}}]

\* the answers detectStackDrift can give; "" is a response without an id
DetectOutputs ==
    [err : CfnErrors, StackDriftDetectionId : {""}]
    \cup [err : {NoErr}, StackDriftDetectionId : DriftDetectionIds \cup {""}]

isValidationError(err) == err.name = "ValidationError" \/ err.Code = "ValidationError"

\* the invocation's locals on entry (lines 41-52, 80-83)
NewInvocation(jobId, params) ==
    [handler |-> "initiate", pc |-> "running", jobId |-> jobId, params |-> params,
     stacksOutput |-> [err |-> NoErr, Stacks |-> NoStacks],
     driftResp |-> [err |-> NoErr, StackDriftDetectionId |-> ""],
     calls |-> <<>>, thrown |-> NoErr]

\* variant: the catch reports every error as a failure
CatchDescribe_AlwaysFails(inv, err, out) ==
    sendFailure(inv, inv.jobId, JSONstringify(err), out)

\* catch of the describeStacks try (lines 58-72)
CatchDescribe(inv, err, out) ==
    IF isValidationError(err)
    THEN sendSuccess(inv, inv.jobId, out)
    ELSE sendFailure(inv, inv.jobId, JSONstringify(err), out)

\* variant: the catch reports every error as a success
CatchDetect_AlwaysSucceeds(inv, err, out) == sendSuccess(inv, inv.jobId, out)

\* variant: the catch reports every error as a failure
CatchDetect_AlwaysFails(inv, err, out) ==
    sendFailure(inv, inv.jobId, JSONstringify(err), out)

\* catch of the detectStackDrift try (lines 110-124)
CatchDetect(inv, err, out) ==
    IF isValidationError(err)
    THEN sendSuccess(inv, inv.jobId, out)
    ELSE sendFailure(inv, inv.jobId, JSONstringify(err), out)

\* catch of the putItem try (lines 151-160)
CatchPut(inv, err, out) == sendFailure(inv, inv.jobId, JSONstringify(err), out)

\* lines 53-57: the describeStacks call and its answer
DescribeStacks(inv, descr) ==
    [inv EXCEPT !.calls = Append(@, Call("describeStacks", inv.params.stackName, "", "", <<>>, descr.err)),
                !.stacksOutput = descr]

\* lines 96-99: the detectStackDrift call and its answer
DetectStackDrift(inv, detect) ==
    [inv EXCEPT !.calls = Append(@, Call("detectStackDrift", inv.params.stackName,
                                         detect.StackDriftDetectionId, "", <<>>, detect.err)),
                !.driftResp = detect]

\* variant: the item is written under the job id as its sort key
CorrelationItem_JobAsSortKey(inv) ==
    [pk |-> TargetKey(inv.params.account, inv.params.region, inv.params.stackName),
     sk |-> inv.jobId,
     pipeline_job_id |-> inv.jobId]

\* the item of lines 134-144
CorrelationItem(inv) ==
    [pk |-> TargetKey(inv.params.account, inv.params.region, inv.params.stackName),
     sk |-> inv.driftResp.StackDriftDetectionId,
     pipeline_job_id |-> inv.jobId]

\* variant: the put is issued without a look at the id
TryPut_NoIdCheck(inv, s1) == [inv EXCEPT !.pc = "pending"]

\* variant: the handler reports success before it writes the record
TryPut_ReportsSuccess(inv, s1) ==
    IF inv.driftResp.StackDriftDetectionId # ""
    THEN [sendSuccess(inv, inv.jobId, s1) EXCEPT !.pc = "pending"]
    ELSE Finish(CatchPut(inv, NewError("Unknown error: Drift detection id missing"), s1))

\* lines 126-150 up to the await of putItem: suspend on the put, or raise
\* "Drift detection id missing" into the catch of lines 151-160
TryPut(inv, s1) ==
    IF inv.driftResp.StackDriftDetectionId # ""
    THEN [inv EXCEPT !.pc = "pending"]
    ELSE Finish(CatchPut(inv, NewError("Unknown error: Drift detection id missing"), s1))

\* variant: any stack in the answer counts as the stack asked for
StackFound_AnyStack(inv) == Len(inv.stacksOutput.Stacks) > 0

\* lines 86-89: the answer holds the stack asked for
StackFound(inv) ==
    /\ Len(inv.stacksOutput.Stacks) > 0
    /\ inv.stacksOutput.Stacks[1].StackName = inv.params.stackName

\* variant: any status that is present allows for drift detection
StatusAllowed_AnyStatus(inv) == inv.stacksOutput.Stacks[1].StackStatus # ""

\* lines 92-93: its status allows for drift detection
StatusAllowed(inv) ==
    /\ inv.stacksOutput.Stacks[1].StackStatus # ""
    /\ inv.stacksOutput.Stacks[1].StackStatus \in allowed_dd_status_list

\* variant: a failed scan start is tried a second time before it is reported
TryDetect_RetriesScan(inv, detect, s1, s2) ==
    IF StackFound(inv)
    THEN IF StatusAllowed(inv)
         THEN LET d == DetectStackDrift(inv, detect) IN
              IF detect.err = NoErr
              THEN TryPut(d, s1)
              ELSE Finish(CatchDetect(DetectStackDrift(d, detect), detect.err, s1))
         ELSE LET a == sendSuccess(inv, inv.jobId, s1) IN
              IF a.thrown = NoErr
              THEN Finish(a)
              ELSE Finish(CatchDetect(a, a.thrown, s2))
    ELSE Finish(CatchDetect(inv, NewError("Unknown error: Check DescribeStacks output"), s1))

\* lines 84-124: the detectStackDrift try and its catch.  A rejection of the
\* sendSuccess of line 102 is thrown inside the try and lands in the catch.
TryDetect(inv, detect, s1, s2) ==
    IF StackFound(inv)
    THEN IF StatusAllowed(inv)
         THEN LET d == DetectStackDrift(inv, detect) IN
              IF detect.err = NoErr
              THEN TryPut(d, s1)
              ELSE Finish(CatchDetect(d, detect.err, s1))
         ELSE LET a == sendSuccess(inv, inv.jobId, s1) IN
              IF a.thrown = NoErr
              THEN Finish(a)
              ELSE Finish(CatchDetect(a, a.thrown, s2))
    ELSE Finish(CatchDetect(inv, NewError("Unknown error: Check DescribeStacks output"), s1))

\* variant: the handler first consults the table and reports a failure when
\* a record of its target is there
Begin_ReadsStore(jobId, params, descr, detect, s1, s2) ==
    LET q == DescribeStacks(NewInvocation(jobId, params), descr) IN
    IF \E i \in store : i.pk = TargetKey(params.account, params.region, params.stackName)
    THEN Finish(CatchDescribe(q, NewError("Unknown error: scan in progress"), s1))
    ELSE IF descr.err # NoErr
         THEN Finish(CatchDescribe(q, descr.err, s1))
         ELSE TryDetect(q, detect, s1, s2)

\* lines 38-131: the handler from its entry to the await of putItem or its return
Begin(jobId, params, descr, detect, s1, s2) ==
    LET q == DescribeStacks(NewInvocation(jobId, params), descr) IN
    IF descr.err # NoErr
    THEN Finish(CatchDescribe(q, descr.err, s1))
    ELSE TryDetect(q, detect, s1, s2)

\* variant: the handler reports success once the record is written
Complete_ReportsSuccess(inv, putOut, s1) ==
    LET p == [inv EXCEPT !.calls = Append(@, Call("putItem", CorrelationItem(inv).pk,
                                                  CorrelationItem(inv).sk, inv.jobId, <<>>, putOut))]
    IN IF putOut = NoErr
       THEN Finish(sendSuccess(p, p.jobId, s1))
       ELSE Finish(CatchPut(p, putOut, s1))

\* lines 132-161: putItem answers; the handler returns or reports the failure
Complete(inv, putOut, s1) ==
    LET p == [inv EXCEPT !.calls = Append(@, Call("putItem", CorrelationItem(inv).pk,
                                                  CorrelationItem(inv).sk, inv.jobId, <<>>, putOut))]
    IN IF putOut = NoErr THEN Finish(p) ELSE Finish(CatchPut(p, putOut, s1))

\* what of an invocation is live across the await of putItem
Suspended(inv) == [inv EXCEPT !.stacksOutput = [err |-> NoErr, Stacks |-> NoStacks]]

-----------------------------------------------------------------------------
(* Completion Handler: callback-lambda handler *)

ExpectedDetailType == "CloudFormation Drift Detection Status Change"

\* a stack id that is no stack ARN: it has no "/"
MalformedStackId == <<"stack">>

StackIds == {StackArn(a, r, n) : a \in Accounts, r \in Regions, n \in StackNames} \cup {MalformedStackId}

DriftStatuses == {"DRIFTED", "IN_SYNC", "UNKNOWN"}

\* the events EventBridge can deliver: event['detail-type'], event.account, event.region,
\* detail['stack-id'], detail['stack-drift-detection-id'], detail['status-details']['stack-drift-status']
Events ==
    [detail_type : {ExpectedDetailType, "CloudFormation Stack Status Change"},
     account : Accounts, region : Regions, stack_id : StackIds,
     stack_drift_detection_id : DriftDetectionIds, stack_drift_status : DriftStatuses]

\* the key of lines 111-118
EventKey(event) ==
    [pk |-> TargetKey(event.account, event.region, extractStackNameFromArn(event.stack_id)),
     sk |-> event.stack_drift_detection_id]

\* the locals of a callback invocation on entry
NewCallback(event) ==
    [handler |-> "callback", pc |-> "running", event |-> event, jobId |-> "",
     calls |-> <<>>, thrown |-> NoErr]

\* lines 100-128: the job id of the item under the event's key; "" stands for
\* undefined, which the handler's `if (jobId)` treats like the empty string
fetchCallbackDetails(inv, table, getOut) ==
    LET key == EventKey(inv.event)
        g == [inv EXCEPT !.calls = Append(@, Call("getItem", key.pk, key.sk, "", <<>>, getOut))]
    IN IF getOut = NoErr
       THEN [g EXCEPT !.jobId = getItem(table, key.pk, key.sk).pipeline_job_id]
       ELSE g

\* line 41
DriftedMessage(event) ==
    <<"Stack ">> \o event.stack_id \o <<" has DRIFTED from its template configuration">>

\* variant: a drifted stack is reported as a success
Report_DriftedSucceeds(inv, s1) ==
    IF inv.jobId # ""
    THEN IF inv.event.stack_drift_status \in {"DRIFTED", "IN_SYNC"}
         THEN sendSuccess(inv, inv.jobId, s1)
         ELSE inv
    ELSE inv

\* variant: only a drifted stack is reported
Report_InSyncIgnored(inv, s1) ==
    IF inv.jobId # "" /\ inv.event.stack_drift_status = "DRIFTED"
    THEN sendFailure(inv, inv.jobId, DriftedMessage(inv.event), s1)
    ELSE inv

\* variant: the report is made without a job having been found
Report_Unguarded(inv, s1) ==
    IF inv.event.stack_drift_status = "DRIFTED"
    THEN sendFailure(inv, inv.jobId, DriftedMessage(inv.event), s1)
    ELSE IF inv.event.stack_drift_status = "IN_SYNC"
         THEN sendSuccess(inv, inv.jobId, s1)
         ELSE inv

\* variant: every status but DRIFTED is reported as a success
Report_ElseSucceeds(inv, s1) ==
    IF inv.jobId # ""
    THEN IF inv.event.stack_drift_status = "DRIFTED"
         THEN sendFailure(inv, inv.jobId, DriftedMessage(inv.event), s1)
         ELSE sendSuccess(inv, inv.jobId, s1)
    ELSE inv

\* lines 37-59: report by the event's drift status to the job found
Report(inv, s1) ==
    IF inv.jobId # ""
    THEN IF inv.event.stack_drift_status = "DRIFTED"
         THEN sendFailure(inv, inv.jobId, DriftedMessage(inv.event), s1)
         ELSE IF inv.event.stack_drift_status = "IN_SYNC"
              THEN sendSuccess(inv, inv.jobId, s1)
              ELSE inv
    ELSE inv

\* lines 33-64: the whole handler
OnScanResult(event, table, getOut, s1) ==
    IF event.detail_type = ExpectedDetailType
    THEN Finish(Report(fetchCallbackDetails(NewCallback(event), table, getOut), s1))
    ELSE Finish(NewCallback(event))

-----------------------------------------------------------------------------
(* The state machine *)

Keys == {TargetKey(p.account, p.region, p.stackName) : p \in Params}

NoInvocation == [handler |-> "none", pc |-> "none"]

NoKey == [pk |-> <<>>, sk |-> ""]

Init ==
    /\ store = {}
    /\ pending = {}
    /\ last = NoInvocation
    /\ lastWriter = [k \in Keys |-> ""]
    /\ dropped = NoKey
    /\ received = [j \in JobIds |-> 0]
    /\ delivered = {}

\* an answer is drawn only for a call the invocation makes
NoDetect == [err |-> NoErr, StackDriftDetectionId |-> ""]
Drawn(inv, detect, s1, s2) ==
    /\ CallsOf(inv.calls, {"detectStackDrift"}) = <<>> => detect = NoDetect
    /\ Len(Callbacks(inv)) < 1 => s1 = NoErr
    /\ Len(Callbacks(inv)) < 2 => s2 = NoErr

\* the pipeline invokes the drift-detect lambda; it runs to its return or to the await of putItem
InitiateRun ==
    /\ last = NoInvocation
    /\ \E jobId \in JobIds, params \in Params, detect \in DetectOutputs,
          s1 \in SendOutcomes, s2 \in SendOutcomes :
       \E descr \in DescribeOutputs(params) :
        LET inv == Begin(jobId, params, descr, detect, s1, s2) IN
        /\ Drawn(inv, detect, s1, s2)
        /\ inv.pc = "pending" => /\ Cardinality(pending) < MaxPending
                                 /\ Suspended(inv) \notin pending
        /\ pending' = IF inv.pc = "pending" THEN pending \cup {Suspended(inv)} ELSE pending
        /\ last' = inv
        /\ UNCHANGED <<store, lastWriter, dropped>>

Initiate == InitiateRun /\ UNCHANGED <<received, delivered>>

\* putItem answers a suspended invocation, which runs to its return
InitiatePutRun ==
    /\ last = NoInvocation
    /\ \E p \in pending, putOut \in StoreOutcomes, s1 \in SendOutcomes :
        LET inv == Complete(p, putOut, s1) IN
        /\ Len(Callbacks(inv)) < 1 => s1 = NoErr
        /\ pending' = pending \ {p}
        /\ store' = IF putOut = NoErr THEN putItem(store, CorrelationItem(p)) ELSE store
        /\ lastWriter' = IF putOut = NoErr
                         THEN [lastWriter EXCEPT ![CorrelationItem(p).pk] = p.jobId]
                         ELSE lastWriter
        /\ last' = inv
        /\ UNCHANGED dropped

InitiatePut == InitiatePutRun /\ UNCHANGED <<received, delivered>>

\* the suspended invocations whose record will go under the key
SuspendedUnder(key) ==
    {p \in pending : CorrelationItem(p).pk = key.pk /\ CorrelationItem(p).sk = key.sk}

\* the invocation discarded a DRIFTED / IN_SYNC event for want of a record
\* while the invocation that started the scan was suspended before its putItem
DiscardedEarly(inv) ==
    /\ inv.event.detail_type = ExpectedDetailType
    /\ inv.event.stack_drift_status \in {"DRIFTED", "IN_SYNC"}
    /\ Len(inv.calls) = 1 /\ inv.calls[1].op = "getItem" /\ inv.calls[1].err = NoErr
    /\ SuspendedUnder(EventKey(inv.event)) # {}

\* EventBridge invokes the callback lambda with an event; it runs to its
\* return.  With track, an event discarded early is remembered in dropped.
ScanResultRun(track) ==
    /\ last = NoInvocation
    /\ \E event \in Events, getOut \in StoreOutcomes, s1 \in SendOutcomes :
        LET inv == OnScanResult(event, store, getOut, s1) IN
        /\ CallsOf(inv.calls, {"getItem"}) = <<>> => getOut = NoErr
        /\ Len(Callbacks(inv)) < 1 => s1 = NoErr
        /\ last' = inv
        /\ dropped' = IF track /\ DiscardedEarly(inv) THEN EventKey(event) ELSE dropped
        /\ UNCHANGED <<store, pending, lastWriter>>

\* variant: the handler deletes the record it has reported on
ScanResult_DeletesRecord ==
    /\ last = NoInvocation
    /\ \E event \in Events, getOut \in StoreOutcomes, s1 \in SendOutcomes :
        LET inv == OnScanResult(event, store, getOut, s1) IN
        /\ CallsOf(inv.calls, {"getItem"}) = <<>> => getOut = NoErr
        /\ Len(Callbacks(inv)) < 1 => s1 = NoErr
        /\ last' = inv
        /\ store' = IF Callbacks(inv) # <<>>
                    THEN {i \in store : ~SameKey(i, EventKey(event))}
                    ELSE store
        /\ UNCHANGED <<pending, lastWriter, dropped, received, delivered>>

ScanResult == ScanResultRun(FALSE) /\ UNCHANGED <<received, delivered>>

ScanResultTracked == ScanResultRun(TRUE) /\ UNCHANGED <<received, delivered>>

\* the invocation that ran has returned, thrown or suspended: its locals are
\* gone; a dropped key is forgotten once no suspended invocation is under it
End ==
    /\ last # NoInvocation
    /\ last' = NoInvocation
    /\ dropped' = IF SuspendedUnder(dropped) # {} THEN dropped ELSE NoKey
    /\ UNCHANGED <<store, pending, lastWriter, received, delivered>>

Next == Initiate \/ InitiatePut \/ ScanResult \/ End

Spec == Init /\ [][Next]_vars

\* the same system, remembering the events that were discarded early
NextRace == Initiate \/ InitiatePut \/ ScanResultTracked \/ End

SpecRace == Init /\ [][NextRace]_vars

\* the most callbacks counted for one job
MaxReceived == 2

\* every callback the invocation made was accepted by the pipeline
SendsSucceed(inv) ==
    \A n \in 1..Len(Callbacks(inv)) : Callbacks(inv)[n].err = NoErr

\* received, with the callbacks the invocation made added to their jobs
Counted(inv) ==
    [j \in JobIds |->
        LET n == received[j] + Len(SelectSeq(Callbacks(inv), LAMBDA c : c.jobId = j))
        IN IF n > MaxReceived THEN MaxReceived ELSE n]

\* the job ids the pipeline has handed out: each has been called back, waits
\* in a suspended invocation, or is in a record
UsedJobs ==
    {j \in JobIds : received[j] > 0} \cup {p.jobId : p \in pending}
        \cup {i.pipeline_job_id : i \in store}

\* the keys of the scans CloudFormation has started or reported on
UsedScans ==
    {[pk |-> i.pk, sk |-> i.sk] : i \in store}
        \cup {[pk |-> CorrelationItem(p).pk, sk |-> CorrelationItem(p).sk] : p \in pending}
        \cup delivered

\* the invocation started a scan, which CloudFormation gave an id of its own
StartsFreshScan(inv) ==
    LET d == CallsOf(inv.calls, {"detectStackDrift"}) IN
    (d # <<>> /\ d[1].err = NoErr /\ d[1].sk # "") =>
        [pk |-> TargetKey(inv.params.account, inv.params.region, inv.params.stackName),
         sk |-> d[1].sk] \notin UsedScans

\* the pipeline invokes the drift-detect lambda for a job it has not handed
\* out before, and accepts its callbacks
InitiateOnce ==
    /\ InitiateRun
    /\ last'.jobId \notin UsedJobs
    /\ SendsSucceed(last')
    /\ StartsFreshScan(last')
    /\ received' = Counted(last')
    /\ UNCHANGED delivered

InitiatePutOnce ==
    /\ InitiatePutRun
    /\ SendsSucceed(last')
    /\ received' = Counted(last')
    /\ UNCHANGED delivered

\* the event reports on a scan of a stack: it is of the expected category
\* and its key is that of a target
ReportsOnScan(event) ==
    event.detail_type = ExpectedDetailType /\ EventKey(event).pk \in Keys

\* EventBridge delivers the result event of a scan, once for each scan
ScanResultOnce ==
    /\ ScanResultRun(FALSE)
    /\ SendsSucceed(last')
    /\ ReportsOnScan(last'.event) => EventKey(last'.event) \notin delivered
    /\ received' = Counted(last')
    /\ delivered' = IF ReportsOnScan(last'.event)
                    THEN delivered \cup {EventKey(last'.event)}
                    ELSE delivered

\* the same system with the pipeline and EventBridge as the handlers expect
\* them: a job id of its own for each invocation, one event for each scan,
\* and callbacks that are accepted
NextOnce == InitiateOnce \/ InitiatePutOnce \/ ScanResultOnce \/ End

SpecOnce == Init /\ [][NextOnce]_vars

-----------------------------------------------------------------------------
(* Vocabulary of the properties *)

IsInitiate == last.handler = "initiate"
IsCallbackRun == last.handler = "callback"
Completed == last.pc \in {"returned", "threw"}

Describes == CallsOf(last.calls, {"describeStacks"})
Detects == CallsOf(last.calls, {"detectStackDrift"})
Puts == CallsOf(last.calls, {"putItem"})
Gets == CallsOf(last.calls, {"getItem"})
Sent == Callbacks(last)

\* the scan start succeeded with a non-empty identifier
ScanStarted == Len(Detects) = 1 /\ Detects[1].err = NoErr /\ Detects[1].sk # ""
\* the store write succeeded
PutSucceeded == Len(Puts) >= 1 /\ Puts[Len(Puts)].err = NoErr

IsSuccessTo(c, jobId) == c.op = "putJobSuccessResult" /\ c.jobId = jobId
IsFailureTo(c, jobId) == c.op = "putJobFailureResult" /\ c.jobId = jobId

\* the records of the table under the key the event leads to
Matching == {i \in store : i.pk = EventKey(last.event).pk /\ i.sk = EventKey(last.event).sk}
ExpectedEvent == IsCallbackRun /\ last.event.detail_type = ExpectedDetailType
LookupSucceeded == Len(Gets) = 1 /\ Gets[1].err = NoErr

-----------------------------------------------------------------------------
(* C1 *)

\* C1 as stated: in every completed initiate invocation whose state query
\* succeeded with an allowed status and whose scan start returned a non-empty
\* id, one record is written under account#region#name with the scan id and
\* the job id, and no callback is sent.
C1_AsStated ==
    (IsInitiate /\ Completed /\ ScanStarted) =>
        /\ Len(Puts) = 1 /\ PutSucceeded
        /\ CorrelationItem(last) \in store
        /\ Sent = <<>>

\* C1 (amended): when, in addition, the store write succeeds, exactly one
\* record is written, keyed account#region#name and carrying the scan id and
\* the invoking job id, and the invocation sends no callback; and an invocation
\* whose query returns the stack in an allowed status and whose scan start
\* returns a non-empty id does reach that write, having sent no callback.
C1_RecordWrittenNoCallback ==
    /\ (IsInitiate /\ Describes[1].err = NoErr /\ StackFound(last) /\ StatusAllowed(last)
            /\ ScanStarted) => last.pc = "pending"
    /\ (IsInitiate /\ last.pc = "pending") =>
        /\ ScanStarted /\ Puts = <<>> /\ Sent = <<>>
    /\ (IsInitiate /\ Completed /\ ScanStarted /\ PutSucceeded) =>
        /\ Len(Puts) = 1
        /\ Puts[1].name = last.params.account \o <<"#">> \o last.params.region
                              \o <<"#">> \o last.params.stackName
        /\ Puts[1].sk = Detects[1].sk
        /\ Puts[1].jobId = last.jobId
        /\ [pk |-> Puts[1].name, sk |-> Puts[1].sk, pipeline_job_id |-> last.jobId] \in store
        /\ Sent = <<>>

C1_Witness == IsInitiate /\ Completed /\ ScanStarted /\ PutSucceeded

-----------------------------------------------------------------------------
(* C2 *)

\* C2: an event of the expected category with outcome DRIFTED whose record is
\* found makes exactly one callback, a reportFailure to the record's job, and
\* no reportSuccess.
C2_DriftedReportsFailure ==
    (ExpectedEvent /\ last.event.stack_drift_status = "DRIFTED"
        /\ LookupSucceeded /\ Matching # {}) =>
        /\ Len(Sent) = 1
        /\ \A i \in Matching : IsFailureTo(Sent[1], i.pipeline_job_id)

C2_Witness ==
    /\ ExpectedEvent /\ last.event.stack_drift_status = "DRIFTED"
    /\ LookupSucceeded /\ Matching # {} /\ Len(Sent) = 1

-----------------------------------------------------------------------------
(* C3 *)

\* C3: an event of the expected category with outcome IN_SYNC whose record is
\* found makes exactly one callback, a reportSuccess to the record's job, and
\* no reportFailure.
C3_InSyncReportsSuccess ==
    (ExpectedEvent /\ last.event.stack_drift_status = "IN_SYNC"
        /\ LookupSucceeded /\ Matching # {}) =>
        /\ Len(Sent) = 1
        /\ \A i \in Matching : IsSuccessTo(Sent[1], i.pipeline_job_id)

C3_Witness ==
    /\ ExpectedEvent /\ last.event.stack_drift_status = "IN_SYNC"
    /\ LookupSucceeded /\ Matching # {} /\ Len(Sent) = 1

-----------------------------------------------------------------------------
(* C4 *)

\* C4: when the lookup fails or returns no record, the completion handler
\* makes no callback.
C4_NoRecordNoCallback ==
    (IsCallbackRun /\ Len(Gets) = 1 /\ (Gets[1].err # NoErr \/ Matching = {})) => Sent = <<>>

\* a lookup that failed although a record was there, and one that found nothing
C4_Witness ==
    /\ IsCallbackRun /\ Len(Gets) = 1 /\ Gets[1].err # NoErr /\ Matching # {}
    /\ last.event.stack_drift_status = "DRIFTED"

C4_WitnessAbsent ==
    /\ IsCallbackRun /\ LookupSucceeded /\ Matching = {} /\ store # {}

-----------------------------------------------------------------------------
(* C5 *)

\* C5: when the state query fails with a ValidationError, reportSuccess is
\* sent for the invoking job, no scan is started and no record is written.
C5_NotFoundReportsSuccess ==
    (IsInitiate /\ isValidationError(Describes[1].err)) =>
        /\ Len(Sent) = 1 /\ IsSuccessTo(Sent[1], last.jobId)
        /\ Detects = <<>>
        /\ Puts = <<>> /\ last.pc # "pending"

C5_Witness ==
    IsInitiate /\ Describes[1].err = ValidationErr /\ last.pc = "returned" /\ store # {}

-----------------------------------------------------------------------------
(* C6 *)

\* C6: when the stack asked for is returned in a status outside the allowed
\* list, reportSuccess is sent for the invoking job, no scan is started and no
\* record is written.
C6_StatusNotAllowedReportsSuccess ==
    (IsInitiate /\ Describes[1].err = NoErr /\ StackFound(last)
        /\ last.stacksOutput.Stacks[1].StackStatus \notin
               {"CREATE_COMPLETE", "UPDATE_COMPLETE", "UPDATE_ROLLBACK_COMPLETE",
                "UPDATE_ROLLBACK_FAILED"}) =>
        /\ Len(Sent) >= 1 /\ IsSuccessTo(Sent[1], last.jobId)
        /\ Detects = <<>>
        /\ Puts = <<>> /\ last.pc # "pending"

C6_Witness ==
    /\ IsInitiate /\ Describes[1].err = NoErr /\ StackFound(last)
    /\ last.stacksOutput.Stacks[1].StackStatus = "UPDATE_IN_PROGRESS"
    /\ last.pc = "returned"

-----------------------------------------------------------------------------
(* C7 *)

\* C7 as stated: the table never holds two records of one targetKey.
C7_AsStated == \A i, j \in store : i.pk = j.pk => i = j

\* C7 (amended): the table never holds two records of one (targetKey, scan
\* id) pair: a write under a pair that has a record replaces it, while records
\* of one targetKey under different scan ids are kept side by side.
C7_OneRecordPerKeyAndScan ==
    /\ \A i, j \in store : (i.pk = j.pk /\ i.sk = j.sk) => i = j
    /\ (IsInitiate /\ Completed /\ PutSucceeded) =>
           \A i \in store : (i.pk = Puts[1].name /\ i.sk = Puts[1].sk) =>
                                i.pipeline_job_id = last.jobId

\* a write for a target that has a record of another job under another scan id
C7_Witness ==
    /\ IsInitiate /\ Completed /\ PutSucceeded
    /\ \E i \in store : i.pk = Puts[1].name /\ i.sk # Puts[1].sk
                          /\ i.pipeline_job_id # last.jobId

-----------------------------------------------------------------------------
(* C8 *)

\* C8 as stated: the job an event is resolved to is the one that wrote last
\* under the event's targetKey, whatever scan id the event carries.
C8_AsStated ==
    (ExpectedEvent /\ LookupSucceeded /\ EventKey(last.event).pk \in Keys
        /\ lastWriter[EventKey(last.event).pk] # "") =>
        last.jobId = lastWriter[EventKey(last.event).pk]

\* C8 (amended): the lookup is by targetKey and scan id together: an event is
\* resolved to the job of the record written under its targetKey and its own
\* scan id, and to no job when there is none, whichever job wrote last for
\* that targetKey; every callback of the invocation goes to that job.
C8_ResolvedByKeyAndScan ==
    (ExpectedEvent /\ LookupSucceeded) =>
        /\ \A i \in Matching : last.jobId = i.pipeline_job_id
        /\ Matching = {} => last.jobId = ""
        /\ \A k \in 1..Len(Sent) : Sent[k].jobId = last.jobId /\ last.jobId # ""

\* two scans of one target by two jobs; the event of the earlier is resolved to the earlier job
C8_Witness ==
    /\ ExpectedEvent /\ LookupSucceeded /\ Len(Sent) = 1
    /\ \E i \in Matching : i.pipeline_job_id # lastWriter[i.pk]

-----------------------------------------------------------------------------
(* C9 *)

\* C9: a completed initiate invocation either persisted a record and sent no
\* callback, or persisted none and made exactly one callback, for its job.
C9_RecordOrOneCallback ==
    (IsInitiate /\ Completed) =>
        \/ PutSucceeded /\ Sent = <<>>
        \/ ~PutSucceeded /\ Len(Sent) = 1 /\ Sent[1].jobId = last.jobId

-----------------------------------------------------------------------------
(* C10 *)

\* C10: a callback send that fails is the last call of its invocation.
C10_FailedSendIsTerminal ==
    (IsInitiate \/ IsCallbackRun) =>
        \A k \in 1..Len(last.calls) :
            (IsCallback(last.calls[k]) /\ last.calls[k].err # NoErr) => k = Len(last.calls)

-----------------------------------------------------------------------------
(* C11 *)

\* the serialisation of an SDK error carries the error's name
CarriesDetail(message, err) == message = <<"{", "name", ":", err.name, "}">>

\* C11: when the state query or the scan start fails with an error that is
\* not a ValidationError, or the store write fails, the invocation makes one
\* callback, a reportFailure for its job whose message is the serialised
\* error; it sends no reportSuccess and persists no record.
C11_UpstreamFailureReportsFailure ==
    /\ (IsInitiate /\ Describes[1].err # NoErr /\ ~isValidationError(Describes[1].err)) =>
        /\ Len(Sent) = 1 /\ IsFailureTo(Sent[1], last.jobId)
        /\ CarriesDetail(Sent[1].message, Describes[1].err)
        /\ Detects = <<>> /\ Puts = <<>> /\ last.pc # "pending"
    /\ (IsInitiate /\ Len(Detects) = 1 /\ Detects[1].err # NoErr
            /\ ~isValidationError(Detects[1].err)) =>
        /\ Len(Sent) = 1 /\ IsFailureTo(Sent[1], last.jobId)
        /\ CarriesDetail(Sent[1].message, Detects[1].err)
        /\ Puts = <<>> /\ last.pc # "pending"
    /\ (IsInitiate /\ Len(Puts) = 1 /\ Puts[1].err # NoErr) =>
        /\ Len(Sent) = 1 /\ IsFailureTo(Sent[1], last.jobId)
        /\ CarriesDetail(Sent[1].message, Puts[1].err)
        /\ Completed

\* a scan start that failed with another error than a ValidationError
C11_Witness ==
    /\ IsInitiate /\ Len(Detects) = 1 /\ Detects[1].err = ThrottlingErr
    /\ last.pc = "returned"

C11_WitnessPut == IsInitiate /\ Len(Puts) = 1 /\ Puts[1].err = StoreErr /\ last.pc = "returned"

-----------------------------------------------------------------------------
(* C12 *)

\* C12: when the scan start fails with a ValidationError, the invocation
\* makes one callback, a reportSuccess for its job; it sends no reportFailure
\* and writes no record.
C12_ScanNotPermittedReportsSuccess ==
    (IsInitiate /\ Len(Detects) = 1 /\ isValidationError(Detects[1].err)) =>
        /\ Len(Sent) = 1 /\ IsSuccessTo(Sent[1], last.jobId)
        /\ Puts = <<>> /\ last.pc # "pending"

C12_Witness ==
    IsInitiate /\ Len(Detects) = 1 /\ Detects[1].err = ValidationErr /\ last.pc = "returned"

-----------------------------------------------------------------------------
(* C13 *)

\* C13: when the scan start succeeds without a scan id, the invocation makes
\* one callback, a reportFailure for its job; it writes no record and sends no
\* reportSuccess.
C13_MissingIdReportsFailure ==
    (IsInitiate /\ Len(Detects) = 1 /\ Detects[1].err = NoErr /\ Detects[1].sk = "") =>
        /\ Len(Sent) = 1 /\ IsFailureTo(Sent[1], last.jobId)
        /\ Puts = <<>> /\ last.pc # "pending"

C13_Witness ==
    /\ IsInitiate /\ Len(Detects) = 1 /\ Detects[1].err = NoErr /\ Detects[1].sk = ""
    /\ last.pc = "returned"

-----------------------------------------------------------------------------
(* C14 *)

C14_WitnessCategory ==
    IsCallbackRun /\ last.event.detail_type = "CloudFormation Stack Status Change" /\ store # {}

-----------------------------------------------------------------------------
(* C18 *)

ServiceCalls == CallsOf(last.calls, {"describeStacks", "detectStackDrift", "putItem", "getItem"})

\* the operations of a sequence of calls
RECURSIVE OpsOf(_)
OpsOf(calls) == IF calls = <<>> THEN <<>> ELSE <<Head(calls).op>> \o OpsOf(Tail(calls))

IsPrefix(s, t) == Len(s) <= Len(t) /\ \A k \in 1..Len(s) : s[k] = t[k]

\* C18: no invocation is left running and none repeats a call: an initiate
\* invocation calls describeStacks, detectStackDrift and putItem at most once
\* each and in that order, and never getItem; a callback invocation calls
\* getItem at most once, before any callback, and never the other three; an
\* invocation suspended at putItem has made the first two calls only.
C18_NoRetry ==
    /\ last.pc \in {"none", "pending", "returned", "threw"}
    /\ IsInitiate =>
        /\ OpsOf(ServiceCalls) # <<>>
        /\ IsPrefix(OpsOf(ServiceCalls), <<"describeStacks", "detectStackDrift", "putItem">>)
        /\ last.pc = "pending" => OpsOf(last.calls) = <<"describeStacks", "detectStackDrift">>
    /\ IsCallbackRun =>
        /\ IsPrefix(OpsOf(ServiceCalls), <<"getItem">>)
        /\ Sent # <<>> => last.calls[1].op = "getItem"
        /\ Completed
    /\ \A p \in pending : OpsOf(p.calls) = <<"describeStacks", "detectStackDrift">>

\* a scan start that failed, and was reported without a second try
C18_Witness ==
    /\ IsInitiate /\ Completed /\ Len(Detects) = 1 /\ Detects[1].err # NoErr /\ Len(Sent) = 1

C18_WitnessAllThree ==
    IsInitiate /\ Completed /\ OpsOf(ServiceCalls) = <<"describeStacks", "detectStackDrift", "putItem">>

-----------------------------------------------------------------------------
(* C19 *)

\* the parameters of the target an event is about, when its stack id is a stack ARN
TargetsOf(event) ==
    {p \in Params : /\ p.account = event.account /\ p.region = event.region
                    /\ event.stack_id = StackArn(p.account, p.region, p.stackName)}

\* C19: for an event of account a, region r and stack id ...:stack/n/<id>, the
\* key the completion handler reads under is a#r#n, the key the initiator
\* writes under for parameters (a, r, n); so a record written for (a, r, n)
\* under the event's scan id is the one the lookup finds.
C19_KeyAgreement ==
    ExpectedEvent =>
        \A p \in TargetsOf(last.event) :
            /\ Gets[1].name = p.account \o <<"#">> \o p.region \o <<"#">> \o p.stackName
            /\ \A j \in JobIds :
                   LET inv == [NewInvocation(j, p) EXCEPT
                                   !.driftResp.StackDriftDetectionId =
                                       last.event.stack_drift_detection_id]
                   IN /\ CorrelationItem(inv).pk = Gets[1].name
                      /\ CorrelationItem(inv).sk = Gets[1].sk
                      /\ (CorrelationItem(inv) \in store /\ LookupSucceeded) => last.jobId = j

\* the event of a scan whose record was written is resolved to the writing job
C19_Witness ==
    /\ ExpectedEvent /\ LookupSucceeded /\ TargetsOf(last.event) # {}
    /\ last.event.stack_id = <<"arn", ":", "r", ":", "1", ":", "stack", "/", "a", "-", "x", "/", "9">>
    /\ last.jobId # "" /\ Len(Sent) = 1

-----------------------------------------------------------------------------
(* C15 *)

\* the services answered the invocation so that it resolves benignly: the
\* target is absent, its status is not allowed, or the scan is not permitted
BenignAnswers ==
    /\ IsInitiate
    /\ \/ isValidationError(Describes[1].err)
       \/ /\ Describes[1].err = NoErr /\ StackFound(last)
          /\ \/ ~StatusAllowed(last)
             \/ Len(Detects) = 1 /\ isValidationError(Detects[1].err)

\* the records of the table under the partition key of the invocation's target
RecordsOfTarget ==
    {i \in store : i.pk = TargetKey(last.params.account, last.params.region,
                                    last.params.stackName)}

\* C15: an initiate invocation that gets benign answers has the benign outcome
\* in whatever state earlier invocations left the table and the suspended
\* invocations: it never reads the table, its first callback is a
\* reportSuccess to its own job, it writes no record, and it leaves the table
\* as it found it; so a run after a benign resolution repeats that outcome.
C15_BenignOutcomeIgnoresStore ==
    [][ BenignAnswers' =>
            /\ Gets' = <<>>
            /\ Len(Sent') >= 1 /\ IsSuccessTo(Sent'[1], last'.jobId)
            /\ Puts' = <<>> /\ last'.pc # "pending"
            /\ store' = store /\ pending' = pending /\ lastWriter' = lastWriter
      ]_vars

\* a benign resolution for a target of which the table holds a record
C15_Witness == BenignAnswers /\ last.pc = "returned" /\ RecordsOfTarget # {}

-----------------------------------------------------------------------------
(* C16 *)

\* the partition keys of the targets the event is about
TargetKeysOf(event) ==
    {TargetKey(p.account, p.region, p.stackName) : p \in TargetsOf(event)}

\* C16: scans of different targets do not touch each other, whatever the
\* interleaving: every callback of a callback invocation goes to a job that
\* has a record written for the target of the event itself, and a put for one
\* target leaves every record of another target in the table as it was.
C16_TargetsIndependent ==
    [][ /\ last'.handler = "callback" =>
            \A n \in 1..Len(Callbacks(last')) :
                \E i \in store : /\ i.pipeline_job_id = Callbacks(last')[n].jobId
                                 /\ i.pk \in TargetKeysOf(last'.event)
        /\ store' # store =>
            \A i \in store : i.pk # Puts'[1].name => i \in store'
      ]_vars

\* an event for one target was reported to its job while the table also held
\* a record of another target with the same scan identifier
C16_Witness ==
    /\ ExpectedEvent /\ LookupSucceeded /\ Sent # <<>>
    /\ \E i \in store : /\ i.pk \notin TargetKeysOf(last.event)
                        /\ i.sk = last.event.stack_drift_detection_id
                        /\ i.pipeline_job_id # Sent[1].jobId

\* a put for one target succeeded while the table held a record of another
C16_WitnessPut ==
    /\ IsInitiate /\ PutSucceeded
    /\ \E i \in store : i.pk # Puts[1].name

-----------------------------------------------------------------------------
(* C17 *)

\* the item a putItem call carried
ItemOf(c) == [pk |-> c.name, sk |-> c.sk, pipeline_job_id |-> c.jobId]

\* C17: no invocation of the callback handler writes to the table or changes
\* it; the table changes only by the one putItem of an initiate invocation
\* that succeeded, which adds or replaces the item under its own key; no key
\* ever leaves the table; initiate never reads the table before it writes.
C17_OnlyInitiatePutChangesStore ==
    [][ /\ last'.handler = "callback" =>
            /\ store' = store
            /\ CallsOf(last'.calls, {"putItem"}) = <<>>
        /\ last'.handler = "initiate" =>
            /\ CallsOf(last'.calls, {"getItem"}) = <<>>
            /\ Len(CallsOf(last'.calls, {"putItem"})) <= 1
        /\ store' # store =>
            /\ last'.handler = "initiate"
            /\ PutSucceeded'
            /\ store' = putItem(store, ItemOf(Puts'[1]))
        /\ \A i \in store : \E j \in store' : SameKey(i, j)
      ]_vars

\* a callback invocation found a record, reported on it, and the record stays
C17_Witness == ExpectedEvent /\ LookupSucceeded /\ Sent # <<>> /\ Matching # {}

\* a successful put replaced a record while another one was in the table
C17_WitnessPut ==
    /\ IsInitiate /\ PutSucceeded /\ Cardinality(store) >= 2
    /\ lastWriter[Puts[1].name] = last.jobId

-----------------------------------------------------------------------------
(* C20 *)

\* C20: the job of a scan whose record is written and whose DRIFTED / IN_SYNC
\* event is delivered receives the callback, also when the event is handled
\* between the scan start and the store write.  An event is delivered once and
\* is the only source of that callback, so when the record is written the
\* event of its scan must not already have been handled and discarded.
C20_EventBeforeWriteIsResolved ==
    (IsInitiate /\ Completed /\ PutSucceeded) =>
        dropped # [pk |-> Puts[1].name, sk |-> Puts[1].sk]

-----------------------------------------------------------------------------
(* C22 *)

\* the invocation has run from its entry and has not been resumed after the
\* await of putItem: stacksOutput is the answer describeStacks gave it
FirstSegment == IsInitiate /\ Puts = <<>>

\* C22: every record of the table has a scan id that is not empty; a record
\* enters the table only by the put of an initiate invocation that called
\* describeStacks, then detectStackDrift, then putItem, and it carries the id
\* that this detectStackDrift returned, the job id of the invocation and the
\* key of its target; and an invocation calls detectStackDrift only after
\* describeStacks returned the stack asked for in an allowed status.
C22_RecordsComeFromStartedScans ==
    [][ /\ \A i \in store' : i.sk # "" /\ i.pipeline_job_id # ""
        /\ \A i \in store' \ store :
            /\ last'.handler = "initiate"
            /\ OpsOf(last'.calls) = <<"describeStacks", "detectStackDrift", "putItem">>
            /\ Detects'[1].err = NoErr /\ i.sk = Detects'[1].sk
            /\ i.pipeline_job_id = last'.jobId
            /\ i.pk = TargetKey(last'.params.account, last'.params.region,
                                last'.params.stackName)
        /\ (FirstSegment' /\ Detects' # <<>>) =>
            /\ IsPrefix(<<"describeStacks", "detectStackDrift">>, OpsOf(last'.calls))
            /\ Describes'[1].err = NoErr
            /\ StackFound(last') /\ StatusAllowed(last')
      ]_vars

\* an invocation has written the record of the scan it started
C22_Witness ==
    /\ IsInitiate /\ PutSucceeded
    /\ \E i \in store : /\ i.sk = Detects[1].sk /\ i.pipeline_job_id = last.jobId
                        /\ i.pk = Puts[1].name

-----------------------------------------------------------------------------
(* C23 *)

\* describeStacks succeeded without the stack asked for as its first stack
UnexpectedAnswer ==
    /\ FirstSegment /\ Describes[1].err = NoErr
    /\ \/ Len(last.stacksOutput.Stacks) = 0
       \/ last.stacksOutput.Stacks[1].StackName # last.params.stackName

\* C23: when describeStacks succeeds but its answer holds no stack, or a
\* first stack of another name than the one asked for, the invocation
\* starts no scan, ends without reaching the putItem and with the table as it
\* was, and makes one callback, a reportFailure for its job.
C23_UnexpectedAnswerReportsFailure ==
    [][ UnexpectedAnswer' =>
            /\ Detects' = <<>>
            /\ last'.pc # "pending" /\ pending' = pending /\ store' = store
            /\ Len(Sent') = 1 /\ IsFailureTo(Sent'[1], last'.jobId)
      ]_vars

\* the answer held a stack of another name, and the failure was reported
C23_Witness ==
    /\ UnexpectedAnswer /\ Len(last.stacksOutput.Stacks) > 0
    /\ last.pc = "returned" /\ IsFailureTo(Sent[1], last.jobId)

\* the answer held no stack, and the failure was reported
C23_WitnessNoStack ==
    /\ UnexpectedAnswer /\ Len(last.stacksOutput.Stacks) = 0
    /\ last.pc = "returned" /\ IsFailureTo(Sent[1], last.jobId)

-----------------------------------------------------------------------------
(* C24 *)

\* the text of the error raised when the scan start answers without an id
MissingIdMessage == "Unknown error: Drift detection id missing"

\* C24: when the scan start succeeds without a scan id, the message of the
\* reportFailure holds the text of the error that was raised.
C24_MissingIdMessageReachesPipeline ==
    (IsInitiate /\ Len(Detects) = 1 /\ Detects[1].err = NoErr /\ Detects[1].sk = ""
        /\ Len(Sent) >= 1) =>
        \E n \in 1..Len(Sent[1].message) : Sent[1].message[n] = MissingIdMessage

-----------------------------------------------------------------------------
(* C21 *)

\* C21: when each initiate invocation has a job id of its own, each scan's
\* event is handled once and every callback is accepted, no job receives
\* more than one callback, counting those of both handlers.
C21_AtMostOneCallbackPerJob == \A j \in JobIds : received[j] <= 1

\* every job has been called back: one by the callback handler on the record
\* of its scan, another by the initiator
C21_Witness ==
    /\ \A j \in JobIds : received[j] = 1
    /\ IsCallbackRun /\ Sent # <<>>
    /\ \E j \in JobIds : \A i \in store : i.pipeline_job_id # j

====
